---- MODULE Spec2Model ----
(***************************************************************************)
(* Gateway: capability tokens (src/src/security.py), the access guard and  *)
(* the orchestration handlers of the routers, as state machines.           *)
(*                                                                         *)
(* A token string is the sequence of its "."-separated segments.  A        *)
(* segment carries what base64 decoding makes of it: `url` is the content  *)
(* under the URL-safe alphabet (PyJWT), `std` the content under the        *)
(* standard alphabet with foreign characters discarded (base64.b64decode   *)
(* as decode_segment calls it).  HMAC-SHA256 is modelled symbolically: a   *)
(* MAC is the triple of key, header segment and payload segment.           *)
(***************************************************************************)
EXTENDS Integers, Sequences, FiniteSets, TLC

VARIABLES
    \* --- codec round trip (issue_token / verify_token) ---
    cIn,        \* the inputs of issue_token: entity_id, access_level, extra
    cTok,       \* the issued token
    cKey,       \* the secret verify_token is called with
    cRes,       \* the result of verify_token
    cPc,        \* "init" | "issued" | "verified"
    \* --- guard (ValidateHeader.__call__) ---
    gTok,       \* the presented token header
    gLevel,     \* required_access_level of the guard
    gRes,       \* the guard's result: outcome and the claims handed over
    gPc,        \* "unchecked" | "checked"
    \* --- request handlers (the routers) ---
    pc,         \* "idle", the handler's next step, or "done"
    route,      \* the route of the request in progress
    hdr,        \* its token header
    tok,        \* the claims the guard handed to the handler
    body,       \* its body / parameters
    loc,        \* the handler's local variables
    calls,      \* the downstream calls this request has issued, in order
    resp,       \* the response: status and body
    nreq,       \* requests received so far
    face_recognitions,      \* metrics.total_face_recognitions
    merged_recognitions,    \* metrics.total_merged_recognitions
    confused_recognitions,  \* metrics.total_confused_recognitions
    recognitions,           \* the rows of table "recognitions" (their type)
    ledgerLog,  \* the ledger requests sent so far, each with its request's inputs
    \* --- concurrent requests of one gateway process ---
    ctx,        \* per execution context: the request it is handling
    uploads     \* the files of directory "uploads": name -> content

codecVars == <<cIn, cTok, cKey, cRes, cPc>>
guardVars == <<gTok, gLevel, gRes, gPc>>
reqVars == <<pc, route, hdr, tok, body, loc, calls, resp>>
metricVars == <<face_recognitions, merged_recognitions, confused_recognitions, recognitions>>
flowVars == <<reqVars, nreq, metricVars, ledgerLog>>
concVars == <<ctx, uploads>>
vars == <<codecVars, guardVars, flowVars, concVars>>

----------------------------------------------------------------------------
(* Values *)

\* settings.secret, and a key the process does not hold
Secret == "secret"
OtherSecret == "other"

USER_LEVEL == "User_Level"
CASHIER_LEVEL == "Cashier_Level"
STORE_MANAGEMENT_LEVEL == "Store_Management_Level"
AccessLevel == {USER_LEVEL, CASHIER_LEVEL, STORE_MANAGEMENT_LEVEL}

EmptyMap == [x \in {} |-> ""]

\* Python values a decoded segment can be
PyNone == [k |-> "None", v |-> EmptyMap]
Obj(m) == [k |-> "obj", v |-> m]
NonMapping(kind) == [k |-> kind, v |-> EmptyMap]
NotUtf8 == NonMapping("notutf8")
NotJson == NonMapping("notjson")
JsonNull == NonMapping("null")
JsonKinds == {"obj", "list", "str", "num", "null"}

Raise(e) == [k |-> "raise", v |-> [exc |-> e]]
Raised(r) == r.k = "raise"

NoMac == [key |-> "", h |-> <<>>, p |-> <<>>]

\* HMAC over "header.payload": determined by the key and the two segments' text
SegText(seg) == <<seg.b64, seg.url, seg.std>>
Hmac(key, hseg, pseg) == [key |-> key, h |-> SegText(hseg), p |-> SegText(pseg)]

\* A text segment: base64url of a byte string
TextSeg(b64, url, std) == [b64 |-> b64, url |-> url, std |-> std, mac |-> NoMac]
\* base64 decoding is not injective: the unused low bits of a segment's last
\* character and trailing '=' are ignored, so a segment has other spellings
\* ("respelled") that decode to the same bytes
Decodable(b64) == b64 \in {"ok", "respelled"}
\* A signature segment: base64url of a MAC
SigSeg(mac) == [b64 |-> "ok", url |-> NotUtf8, std |-> NotUtf8, mac |-> mac]

\* The characters '-' and '_' of the URL-safe alphabet appear in the encoding
\* of a JSON text only for a byte whose low six bits are 62 or 63 ('>', '?',
\* '~') at a position 2 mod 3. base64.b64decode discards them, which shifts
\* the rest of the text by six bits for each: with one of them (entity_id
\* "~") the text is no longer UTF-8 or JSON; with four of them the text is
\* aligned again, and entity_id "~aa~bb~1a~aa" reads as another string.
UrlCharValues == {"~"}
HasUrlChars(m) == \E key \in DOMAIN m : m[key] \in UrlCharValues
TwoFacedId == "~aa~bb~1a~aa"
StdReading(value) == IF value = TwoFacedId THEN "XXV&$(U+0145)aa" ELSE value

\* base64url(json.dumps(m)) as jwt.encode builds a segment
B64UrlJson(m) ==
    TextSeg("ok", Obj(m),
            IF HasUrlChars(m) THEN NotJson
            ELSE Obj([key \in DOMAIN m |-> StdReading(m[key])]))

Header(alg) == B64UrlJson([alg |-> alg, typ |-> "JWT"])

Token(segs) == [present |-> TRUE, segs |-> segs]
NoToken == [present |-> FALSE, segs |-> <<>>]

----------------------------------------------------------------------------
(* src/src/security.py *)

\* issue_token: jwt.encode({"entity_id", "access_level", **kwargs}, secret, HS256)
Payload(entity_id, access_level, extra) ==
    [key \in {"entity_id", "access_level"} \cup DOMAIN extra |->
        IF key = "entity_id" THEN entity_id
        ELSE IF key = "access_level" THEN access_level
        ELSE extra[key]]

\* (mutant) the extra claims are not stored
issue_token_dropextra(entity_id, access_level, secret, extra) ==
    LET h == Header("HS256")
        p == B64UrlJson(Payload(entity_id, access_level, EmptyMap))
    IN  Token(<<h, p, SigSeg(Hmac(secret, h, p))>>)

issue_token(entity_id, access_level, secret, extra) ==
    LET h == Header("HS256")
        p == B64UrlJson(Payload(entity_id, access_level, extra))
    IN  Token(<<h, p, SigSeg(Hmac(secret, h, p))>>)

\* The registered claims jwt.decode validates when it is called with no
\* options: "exp" against the clock, "aud" against the (absent) audience.
ExpPast == "exp_past"
ExpFuture == "exp_future"
ClaimsError(m) ==
    IF "exp" \in DOMAIN m /\ m["exp"] = ExpPast THEN "ExpiredSignatureError"
    ELSE IF "aud" \in DOMAIN m THEN "InvalidAudienceError"
    ELSE "none"

JwtFail(e) == [ok |-> FALSE, err |-> e, claims |-> EmptyMap]
JwtOk(m) == [ok |-> TRUE, err |-> "none", claims |-> m]

\* verify_token: jwt.decode(token, supposed_secret, algorithms="HS256")
verify_token(token, supposed_secret) ==
    LET segs == token.segs IN
    IF Len(segs) < 3 THEN JwtFail("DecodeError")
    ELSE
    LET h == segs[1]
        p == segs[2]
        s == segs[3]
    IN  IF h.b64 # "ok" \/ h.url.k # "obj" THEN JwtFail("DecodeError")
        ELSE IF p.b64 # "ok" \/ ~Decodable(s.b64) THEN JwtFail("DecodeError")
        ELSE IF "alg" \notin DOMAIN h.url.v \/ h.url.v["alg"] # "HS256"
            THEN JwtFail("InvalidAlgorithmError")
        ELSE IF s.mac # Hmac(supposed_secret, h, p)
            THEN JwtFail("InvalidSignatureError")
        ELSE IF p.url.k # "obj" THEN JwtFail("DecodeError")
        ELSE IF ClaimsError(p.url.v) # "none" THEN JwtFail(ClaimsError(p.url.v))
        ELSE JwtOk(p.url.v)

\* decode_segment: base64.b64decode(segment + "=="), .decode(), json.loads;
\* binascii.Error, JSONDecodeError and UnicodeDecodeError give None
decode_segment(segment) ==
    IF segment.b64 = "nonascii" THEN Raise("ValueError")
    ELSE IF segment.b64 # "ok" THEN PyNone
    ELSE IF segment.std.k \in {"notutf8", "notjson"} THEN PyNone
    ELSE IF segment.std.k = "null" THEN PyNone
    ELSE segment.std

PyBool(b) == [k |-> "bool", v |-> [val |-> b]]

\* (mutant) the level is read from the unverified payload
token_has_access_noverify(token, access_level, secret) ==
    IF Len(token.segs) < 2 THEN PyBool(FALSE)
    ELSE
    LET payload == decode_segment(token.segs[2]) IN
    IF Raised(payload) THEN payload
    ELSE IF payload = PyNone THEN PyBool(FALSE)
    ELSE IF payload.k # "obj" THEN Raise("AttributeError")
    ELSE IF "entity_id" \notin DOMAIN payload.v THEN PyBool(FALSE)
    ELSE IF "access_level" \notin DOMAIN payload.v THEN Raise("KeyError")
    ELSE PyBool(payload.v["access_level"] = access_level)

\* (mutant) tiers are ranked: a higher tier passes a lower tier's guard
LevelRank(level) ==
    IF level = USER_LEVEL THEN 1 ELSE IF level = CASHIER_LEVEL THEN 2 ELSE 3
token_has_access_ranked(token, access_level, secret) ==
    IF Len(token.segs) < 2 THEN PyBool(FALSE)
    ELSE
    LET payload == decode_segment(token.segs[2]) IN
    IF Raised(payload) THEN payload
    ELSE IF payload = PyNone THEN PyBool(FALSE)
    ELSE IF payload.k # "obj" THEN Raise("AttributeError")
    ELSE IF "entity_id" \notin DOMAIN payload.v THEN PyBool(FALSE)
    ELSE
    LET decoded_payload == verify_token(token, secret) IN
    IF ~decoded_payload.ok THEN PyBool(FALSE)
    ELSE IF "access_level" \notin DOMAIN decoded_payload.claims THEN Raise("KeyError")
    ELSE PyBool(LevelRank(decoded_payload.claims["access_level"]) >= LevelRank(access_level))

\* token_has_access
token_has_access(token, access_level, secret) ==
    IF Len(token.segs) < 2 THEN PyBool(FALSE)
    ELSE
    LET payload == decode_segment(token.segs[2]) IN
    IF Raised(payload) THEN payload
    ELSE IF payload = PyNone THEN PyBool(FALSE)
    ELSE IF payload.k # "obj" THEN Raise("AttributeError")
    ELSE IF "entity_id" \notin DOMAIN payload.v THEN PyBool(FALSE)
    ELSE
    LET decoded_payload == verify_token(token, secret) IN
    IF ~decoded_payload.ok THEN PyBool(FALSE)
    ELSE IF "access_level" \notin DOMAIN decoded_payload.claims THEN Raise("KeyError")
    ELSE PyBool(decoded_payload.claims["access_level"] = access_level)

\* Outcomes of a request at the guard
Admitted == "Admitted"
Unauthenticated == "Unauthenticated"
Forbidden == "Forbidden"
Fault == "Fault"

GuardResult(out, claims) == [out |-> out, claims |-> claims]

\* (mutant) the guard does not verify the signature
ValidateHeader_unverified(required_access_level, secret, token) ==
    IF ~token.present THEN GuardResult(Unauthenticated, PyNone)
    ELSE
    LET access == token_has_access_noverify(token, required_access_level, secret) IN
    IF Raised(access) THEN GuardResult(Fault, PyNone)
    ELSE IF ~access.v.val THEN GuardResult(Forbidden, PyNone)
    ELSE LET claims == decode_segment(token.segs[2]) IN
         IF Raised(claims) THEN GuardResult(Fault, PyNone)
         ELSE GuardResult(Admitted, claims)

\* ValidateHeader.__call__
ValidateHeader(required_access_level, secret, token) ==
    IF ~token.present THEN GuardResult(Unauthenticated, PyNone)
    ELSE
    LET access == token_has_access(token, required_access_level, secret) IN
    IF Raised(access) THEN GuardResult(Fault, PyNone)
    ELSE IF ~access.v.val THEN GuardResult(Forbidden, PyNone)
    ELSE LET claims == decode_segment(token.segs[2]) IN
         IF Raised(claims) THEN GuardResult(Fault, PyNone)
         ELSE GuardResult(Admitted, claims)

----------------------------------------------------------------------------
(* Input domains *)

EntityIds == {"u1", "~", TwoFacedId}
ShopIds == {"s1"}

\* kwargs of issue_token: any subset of these keys, each with one of its values
ExtraValues(key) ==
    IF key = "shop_id" THEN ShopIds
    ELSE IF key = "exp" THEN {ExpPast, ExpFuture}
    ELSE {"a1"}
ExtraKeys == {"shop_id", "exp", "aud"}
Maps(keys, Vals(_)) ==
    UNION {{m \in [K -> UNION {Vals(key) : key \in K}] :
                \A key \in K : m[key] \in Vals(key)} : K \in SUBSET keys}
Extras == Maps(ExtraKeys, ExtraValues)

IssueInputs == [entity_id : EntityIds, access_level : AccessLevel, extra : Extras]

\* Payload mappings a presented token can carry
PayloadValues(key) ==
    IF key = "entity_id" THEN EntityIds
    ELSE IF key = "access_level" THEN AccessLevel
    ELSE IF key = "shop_id" THEN ShopIds
    ELSE {ExpPast}
PayloadMaps == Maps({"entity_id", "access_level", "shop_id", "exp"}, PayloadValues)

GarbageKinds == {"notutf8", "notjson", "null", "list", "str", "num"}
\* A segment whose two alphabets read as different claim sets
TwoFaced ==
    {TextSeg("ok", Obj(Payload("u1", USER_LEVEL, EmptyMap)),
                   Obj(Payload("u1", CASHIER_LEVEL, EmptyMap))),
     TextSeg("ok", Obj(Payload("u1", USER_LEVEL, EmptyMap)), NonMapping("list"))}
PayloadSegs ==
    {B64UrlJson(m) : m \in PayloadMaps}
    \cup {TextSeg("ok", NonMapping(g), NonMapping(g)) : g \in GarbageKinds}
    \cup {TextSeg(b, NotJson, NotJson) : b \in {"badpad", "nonascii"}}
    \cup TwoFaced
HeaderSegs == {Header("HS256"), Header("none"), TextSeg("ok", NotJson, NotJson)}
SigSegs(h, p) ==
    {SigSeg(Hmac(Secret, h, p)), SigSeg(Hmac(OtherSecret, h, p)),
     SigSeg(Hmac(Secret, h, Header("HS256"))),
     [SigSeg(Hmac(Secret, h, p)) EXCEPT !.b64 = "respelled"],
     [SigSeg(NoMac) EXCEPT !.b64 = "badpad"]}

PresentedTokens ==
    {NoToken}
    \cup {Token(<<h>>) : h \in HeaderSegs}
    \cup {Token(<<h, p>>) : h \in HeaderSegs, p \in PayloadSegs}
    \cup UNION {{Token(<<h, p, s>>) : s \in SigSegs(h, p)} :
                    h \in HeaderSegs, p \in PayloadSegs}

----------------------------------------------------------------------------
(* Codec round trip: issue_token, then verify_token *)

CodecIdle ==
    /\ cIn = [entity_id |-> "u1", access_level |-> USER_LEVEL, extra |-> EmptyMap]
    /\ cTok = NoToken
    /\ cKey = Secret
    /\ cRes = JwtFail("none")
    /\ cPc = "off"

GuardIdle ==
    /\ gTok = NoToken
    /\ gLevel = USER_LEVEL
    /\ gRes = GuardResult("Unchecked", PyNone)
    /\ gPc = "off"

NoResp == [status |-> 0, body |-> EmptyMap]
NoLoc == [new |-> FALSE, uid |-> "", temp |-> "", profile_status |-> 0,
          profile |-> EmptyMap, item_details |-> <<>>, shops |-> <<>>,
          transactions |-> <<>>, names |-> <<>>]

FlowIdle ==
    /\ pc = "idle"
    /\ route = ""
    /\ hdr = NoToken
    /\ tok = EmptyMap
    /\ body = EmptyMap
    /\ loc = NoLoc
    /\ calls = <<>>
    /\ resp = NoResp
    /\ nreq = 0
    /\ face_recognitions = 0
    /\ merged_recognitions = 0
    /\ confused_recognitions = 0
    /\ recognitions = <<>>
    /\ ledgerLog = {}

\* Two execution contexts: a worker thread per sync handler, the event loop
\* for async handlers
Procs == {1, 2}
NoCtx == [pc |-> "idle", route |-> "", tok |-> EmptyMap, input |-> EmptyMap,
          calls |-> <<>>, resp |-> NoResp]
NoFile == "absent"
UploadNames == {"catalogue.xlsx", "notes.txt"}
ConcIdle ==
    /\ ctx = [p \in Procs |-> NoCtx]
    /\ uploads = [name \in UploadNames |-> NoFile]

CodecInit ==
    /\ cIn \in IssueInputs
    /\ cKey \in {Secret, OtherSecret}
    /\ cTok = NoToken
    /\ cRes = JwtFail("none")
    /\ cPc = "init"
    /\ GuardIdle
    /\ FlowIdle
    /\ ConcIdle

Issue ==
    /\ cPc = "init"
    /\ cTok' = issue_token(cIn.entity_id, cIn.access_level, Secret, cIn.extra)
    /\ cPc' = "issued"
    /\ UNCHANGED <<cIn, cKey, cRes, guardVars, flowVars, concVars>>

Verify ==
    /\ cPc = "issued"
    /\ cRes' = verify_token(cTok, cKey)
    /\ cPc' = "verified"
    /\ UNCHANGED <<cIn, cKey, cTok, guardVars, flowVars, concVars>>

CodecNext == Issue \/ Verify
SpecCodec == CodecInit /\ [][CodecNext]_vars

----------------------------------------------------------------------------
(* Guard: one request at a guard of tier gLevel *)

GuardInit ==
    /\ gTok \in PresentedTokens
    /\ gLevel \in AccessLevel
    /\ gRes = GuardResult("Unchecked", PyNone)
    /\ gPc = "unchecked"
    /\ CodecIdle
    /\ FlowIdle
    /\ ConcIdle

GuardCall ==
    /\ gPc = "unchecked"
    /\ gRes' = ValidateHeader(gLevel, Secret, gTok)
    /\ gPc' = "checked"
    /\ UNCHANGED <<gTok, gLevel, codecVars, flowVars, concVars>>

GuardNext == GuardCall
SpecGuard == GuardInit /\ [][GuardNext]_vars

----------------------------------------------------------------------------
(* Claims about the guard and the codec *)

\* The presented token's MAC is the HMAC of its header and payload under the
\* process secret
SignedBySecret(token) ==
    /\ Len(token.segs) = 3
    /\ Decodable(token.segs[3].b64)
    /\ token.segs[3].mac = Hmac(Secret, token.segs[1], token.segs[2])

\* The access_level the token's payload (as signed) states
TokenLevelIs(token, level) ==
    /\ Len(token.segs) >= 2
    /\ token.segs[2].url.k = "obj"
    /\ "access_level" \in DOMAIN token.segs[2].url.v
    /\ token.segs[2].url.v["access_level"] = level

\* C1: the guard admits a request only if the token's signature verifies
\* under the process secret and the token's access_level equals the required
\* tier; a token of any other tier is never admitted.
C1_AdmitsOnlySignedAtTier ==
    (gPc = "checked" /\ gRes.out = Admitted) =>
        /\ SignedBySecret(gTok)
        /\ TokenLevelIs(gTok, gLevel)
        /\ \A other \in AccessLevel \ {gLevel} : ~TokenLevelIs(gTok, other)

C1_Witness ==
    /\ gPc = "checked"
    /\ gRes.out = Admitted
    /\ gLevel = CASHIER_LEVEL

\* The tokens issue_token makes at a tier
IssuedAt(level) ==
    {issue_token(e, level, Secret, x) : e \in EntityIds, x \in Extras}

\* C2: a request with no token is rejected Unauthenticated, and a request
\* with a token issued (signed with the secret) at a tier other than the
\* guard's is rejected Forbidden.
C2_NoTokenAndWrongTier ==
    gPc = "checked" =>
        /\ ~gTok.present => gRes.out = Unauthenticated
        /\ \A level \in AccessLevel \ {gLevel} :
               gTok \in IssuedAt(level) => gRes.out = Forbidden

C2_Witness ==
    /\ gPc = "checked"
    /\ gLevel = CASHIER_LEVEL
    /\ gTok = issue_token("u1", USER_LEVEL, Secret, EmptyMap)
    /\ gRes.out = Forbidden

RoundTrips ==
    /\ cRes.ok
    /\ DOMAIN cRes.claims = {"entity_id", "access_level"} \cup DOMAIN cIn.extra
    /\ cRes.claims["entity_id"] = cIn.entity_id
    /\ cRes.claims["access_level"] = cIn.access_level
    /\ \A key \in DOMAIN cIn.extra : cRes.claims[key] = cIn.extra[key]

FailsValidation(extra) ==
    \/ "exp" \in DOMAIN extra /\ extra["exp"] = ExpPast
    \/ "aud" \in DOMAIN extra

Garbage(token) ==
    /\ token.present
    /\ \/ Len(token.segs) < 3
       \/ token.segs[2].b64 # "ok"
       \/ token.segs[2].std.k # "obj"
       \/ "entity_id" \notin DOMAIN token.segs[2].std.v

\* C4: a garbage token ends in the typed Forbidden rejection, never in an
\* unhandled fault.
C4_GarbageForbidden ==
    (gPc = "checked" /\ Garbage(gTok)) => gRes.out = Forbidden

\* the failing input: a payload segment that is the JSON text of a list
C4_FaultReached ==
    /\ gPc = "checked"
    /\ Len(gTok.segs) = 3
    /\ gTok.segs[2].std.k = "list"
    /\ gRes.out = Fault

----------------------------------------------------------------------------
(* Downstream calls: requests.get / requests.post with timeout=10 *)

\* What a call raises when the backend cannot be reached or does not answer
RequestFailures == {"ConnectTimeout", "ReadTimeout", "ConnectionError"}

\* The classes an exception of requests.exceptions is an instance of
Mro(exc) ==
    IF exc = "ConnectTimeout"
    THEN {"requests.ConnectTimeout", "requests.ConnectionError", "requests.Timeout",
          "requests.RequestException", "OSError"}
    ELSE IF exc = "ReadTimeout"
    THEN {"requests.ReadTimeout", "requests.Timeout", "requests.RequestException", "OSError"}
    ELSE {"requests.ConnectionError", "requests.RequestException", "OSError"}

Caught(clause, exc) == clause \cap Mro(exc) # {}

\* except (ConnectionError, TimeoutError) where ConnectionError is imported
\* from requests.exceptions and TimeoutError is the builtin
ExceptFace == {"requests.ConnectionError", "TimeoutError"}
\* except (ConnectionError, TimeoutError), both builtins
ExceptBuiltins == {"ConnectionError", "TimeoutError"}
\* except TimeoutError, the builtin
ExceptTimeout == {"TimeoutError"}

Reply(exc, status, json) == [exc |-> exc, status |-> status, json |-> json]
Failures == {Reply(e, 0, EmptyMap) : e \in RequestFailures}
Failed(reply) == reply.exc # "none"
Answer(status, json) == Reply("none", status, json)
ErrorJson == [detail |-> "error"]

Http(status, json) == [status |-> status, body |-> json]
HTTPException(status_code, detail) == Http(status_code, [detail |-> detail])
\* an exception no handler catches: the server answers 500
InternalServerError == Http(500, [detail |-> "Internal Server Error"])

\* (mutant) a failed call leaves the request without an outcome
OnFailure_silent(clause, exc, detail) == [status |-> 0, body |-> EmptyMap]

OnFailure(clause, exc, detail) ==
    IF Caught(clause, exc) THEN HTTPException(550, detail) ELSE InternalServerError

\* A downstream call as issued, with the exception it raised ("none": it answered)
Call(op, arg, reply) ==
    [op |-> op, arg |-> arg, exc |-> reply.exc, status |-> reply.status,
     json |-> reply.json]

\* (mutant) the backend's rejection is not looked at
Rejected_never(response, status_code) == FALSE

\* if response.status_code == <status_code>
Rejected(response, status_code) == response.status = status_code

Min(a, b) == IF a < b THEN a ELSE b

----------------------------------------------------------------------------
(* Requests *)

MaxRequests == 2
MaxItems == 2

Users == {"u1", "u2"}
FaceUids == {"f1", "f2"}
TempIds == {"t1", "t2"}
ItemIds == {"A", "B"}

\* Tokens presented to the handlers' guards
UserTok == issue_token("u1", USER_LEVEL, Secret, EmptyMap)
OtherUserTok == issue_token("u2", USER_LEVEL, Secret, EmptyMap)
CashierTok == issue_token("c1", CASHIER_LEVEL, Secret, [shop_id |-> "s1"])
CashierNoShopTok == issue_token("c1", CASHIER_LEVEL, Secret, EmptyMap)
ForgedCashierTok == issue_token("c1", CASHIER_LEVEL, OtherSecret, [shop_id |-> "s1"])
ShopTok == issue_token("s1", STORE_MANAGEMENT_LEVEL, Secret, EmptyMap)
FlowTokens == {NoToken, UserTok, OtherUserTok, CashierTok, CashierNoShopTok, ForgedCashierTok, ShopTok}

UserRoutes == {"get_user_balance", "get_user_transactions", "get_user"}
CashierRoutes == {"merge_users", "note_user_confusion", "get_inventory",
                  "get_items_details", "record_transaction"}
ShopRoutes == {"create_cashier"}
LoginRoutes == {"login_user", "login_cashier", "login_shop"}
OpenRoutes == {"recognise", "create_user"} \cup LoginRoutes
ProtectedRoutes == UserRoutes \cup CashierRoutes \cup ShopRoutes
Routes == OpenRoutes \cup ProtectedRoutes

\* Depends(ValidateHeader(<level>, settings.secret)) of the route
RouteLevel(r) ==
    IF r \in UserRoutes THEN USER_LEVEL
    ELSE IF r \in ShopRoutes THEN STORE_MANAGEMENT_LEVEL
    ELSE CASHIER_LEVEL

\* (mutant) record_transaction goes to the ledger without the inventory lookup
Entry_noLookup(r) ==
    IF r = "recognise" THEN "handle_face_recognition"
    ELSE IF r = "get_user" THEN "get_user_by_token"
    ELSE r

\* Where the handler of a route starts
Entry(r) ==
    IF r = "recognise" THEN "handle_face_recognition"
    ELSE IF r = "record_transaction" THEN "get_items_details"
    ELSE IF r = "get_user" THEN "get_user_by_token"
    ELSE r

SeqsUpTo(S, n) == UNION {[1..k -> S] : k \in 0..n}

\* (item_id, quantity) pairs of TransactionCreateFromFrontend
ItemQuantities == {<<"A", 2>>, <<"B", 1>>}

Bodies(r) ==
    IF r = "recognise" THEN {[file |-> "face.jpg"]}
    ELSE IF r = "login_user" THEN {[email |-> "a@b.c", password |-> "pw"]}
    ELSE IF r = "login_cashier"
    THEN {[shop_nickname |-> "acme", account_name |-> "till1", password |-> "pw"]}
    ELSE IF r = "login_shop" THEN {[nickname |-> "acme", password |-> "pw"]}
    ELSE IF r = "create_user"
    THEN {[first_name |-> "Ann", user_name |-> "ann", email |-> "a@b.c", password |-> "pw"]}
    ELSE IF r = "merge_users" THEN {[old_uid |-> "t1", new_uid |-> "u1"]}
    ELSE IF r = "note_user_confusion" THEN {[recognised_uid |-> "u1", found_uid |-> "u2"]}
    ELSE IF r = "create_cashier" THEN {[account_name |-> "till1", password |-> "pw"]}
    ELSE IF r = "get_user_transactions"
    THEN [offset : {0, 5}, limit : {100}] \cup {[offset |-> 0, limit |-> 100, uid |-> "u2"]}
    ELSE IF r \in {"get_user", "get_user_balance"} THEN {EmptyMap, [uid |-> "u2"]}
    ELSE IF r = "get_items_details" THEN [item_id_list : SeqsUpTo(ItemIds, MaxItems)]
    ELSE IF r = "record_transaction"
    THEN [user_id : Users, item_id_quantity : SeqsUpTo(ItemQuantities, MaxItems)]
    ELSE {EmptyMap}

\* The same, with one item list per route, for the specification of all routes
FewBodies(r) ==
    IF r = "get_items_details" THEN {[item_id_list |-> <<"A", "B">>]}
    ELSE IF r = "record_transaction"
    THEN {[user_id |-> "u1", item_id_quantity |-> <<<<"A", 2>>, <<"B", 1>>>>]}
    ELSE Bodies(r)

\* A request arrives for one of the routes R; every is TRUE when its body
\* ranges over Bodies, FALSE when over FewBodies
Receive(R, every) ==
    /\ pc = "idle"
    /\ nreq < MaxRequests
    /\ \E r \in R :
       \E h \in (IF r \in OpenRoutes THEN {NoToken} ELSE FlowTokens) :
       \E b \in (IF every THEN Bodies(r) ELSE FewBodies(r)) :
          /\ route' = r
          /\ hdr' = h
          /\ body' = b
          /\ pc' = IF r \in OpenRoutes THEN Entry(r) ELSE "guard"
    /\ nreq' = nreq + 1
    /\ UNCHANGED <<tok, loc, calls, resp>>
    /\ UNCHANGED <<metricVars, ledgerLog, codecVars, guardVars, concVars>>

\* The response is sent and the request's context is dropped
Respond ==
    /\ pc = "done"
    /\ pc' = "idle"
    /\ route' = ""
    /\ hdr' = NoToken
    /\ tok' = EmptyMap
    /\ body' = EmptyMap
    /\ loc' = NoLoc
    /\ calls' = <<>>
    /\ resp' = NoResp
    /\ UNCHANGED <<nreq, metricVars, ledgerLog, codecVars, guardVars, concVars>>

\* The dependency of a protected route: the guard runs before the handler
Guard ==
    /\ pc = "guard"
    /\ LET g == ValidateHeader(RouteLevel(route), Secret, hdr) IN
       IF g.out = Admitted
       THEN /\ tok' = g.claims.v
            /\ pc' = Entry(route)
            /\ resp' = resp
       ELSE /\ tok' = tok
            /\ pc' = "done"
            /\ resp' = IF g.out = Unauthenticated THEN Http(401, ErrorJson)
                       ELSE IF g.out = Forbidden THEN Http(403, ErrorJson)
                       ELSE InternalServerError
    /\ UNCHANGED <<route, hdr, body, loc, calls, nreq, metricVars, ledgerLog,
                   codecVars, guardVars, concVars>>

----------------------------------------------------------------------------
(* src/src/face_recognition_route.py: handle_face_recognition *)

NoUser == EmptyMap
RecognitionResult(assummed_new, uid, user) ==
    [assummed_new |-> assummed_new, uid |-> uid, user |-> user]

RecogniseReplies == {Answer(200, [new |-> n, uid |-> u]) : n \in BOOLEAN, u \in FaceUids}
TempUserReplies == {Answer(200, [uid |-> t]) : t \in TempIds} \cup {Answer(500, ErrorJson)}
AssignUidReplies == {Answer(200, EmptyMap), Answer(404, ErrorJson), Answer(500, ErrorJson)}
\* The user service answers /user/{uid} with a User, or with an error
GetUserReplies(uid) ==
    {Answer(200, [uid |-> uid, first_name |-> "Ann", user_name |-> "ann",
                  email |-> "ann@x.y"]),
     Answer(404, ErrorJson), Answer(500, ErrorJson)}

\* UserPublicProfile.model_validate: the three public fields are required,
\* the other fields of the answer are dropped
PublicFields == {"uid", "first_name", "user_name"}
ValidProfile(json) == PublicFields \subseteq DOMAIN json
UserPublicProfile(json) == [key \in PublicFields |-> json[key]]

\* 1. requests.post(".../frontend/recognise"), total_face_recognitions.inc()
FaceRecognise ==
    /\ pc = "handle_face_recognition"
    /\ \E result \in RecogniseReplies \cup Failures :
        /\ calls' = Append(calls, Call("recognise", [file |-> body.file], result))
        /\ IF Failed(result)
          THEN /\ resp' = OnFailure(ExceptFace, result.exc,
                                    "Face recognition service not available")
               /\ pc' = "done"
               /\ UNCHANGED <<loc, face_recognitions>>
          ELSE /\ face_recognitions' = face_recognitions + 1
               /\ loc' = [loc EXCEPT !.new = result.json.new, !.uid = result.json.uid]
               /\ pc' = IF result.json.new THEN "temp_user" ELSE "get_user"
               /\ resp' = resp
    /\ UNCHANGED <<route, hdr, tok, body, nreq, merged_recognitions,
                   confused_recognitions, recognitions, ledgerLog, codecVars, guardVars, concVars>>

\* 2.1 requests.post(".../temp_user")
FaceTempUser ==
    /\ pc = "temp_user"
    /\ \E temporal_user_response \in TempUserReplies \cup Failures :
        /\ calls' = Append(calls, Call("temp_user", EmptyMap, temporal_user_response))
        /\ IF Failed(temporal_user_response)
          THEN /\ resp' = OnFailure(ExceptFace, temporal_user_response.exc,
                                    "User service not available")
               /\ pc' = "done"
               /\ loc' = loc
          ELSE IF "uid" \notin DOMAIN temporal_user_response.json
          THEN /\ resp' = InternalServerError
               /\ pc' = "done"
               /\ loc' = loc
          ELSE /\ loc' = [loc EXCEPT !.temp = temporal_user_response.json.uid]
               /\ pc' = "assign_uid"
               /\ resp' = resp
    /\ UNCHANGED <<route, hdr, tok, body, nreq, metricVars, ledgerLog,
                   codecVars, guardVars, concVars>>

\* (mutant) the two ids change places
AssignUidJson_swapped(temporal_uid, recognised_uid) ==
    [new_uid |-> recognised_uid, old_uid |-> temporal_uid]

\* json={"new_uid": jsonned_temporal_user_response["uid"], "old_uid": recognition_result["uid"]}
AssignUidJson(temporal_uid, recognised_uid) ==
    [new_uid |-> temporal_uid, old_uid |-> recognised_uid]

\* (mutant) the status of the reassignment is not looked at
AssignUidResult_anyStatus(result_id_update, temporal_uid) ==
    Http(200, RecognitionResult(TRUE, temporal_uid, NoUser))

\* if result_id_update.status_code != 200: raise 550; return the new uid
AssignUidResult(result_id_update, temporal_uid) ==
    IF result_id_update.status # 200
    THEN HTTPException(550, "Face recognition service raised error")
    ELSE Http(200, RecognitionResult(TRUE, temporal_uid, NoUser))

\* 2.2 requests.post(".../frontend/assign_uid"), 2.3 the new uid is returned
FaceAssignUid ==
    /\ pc = "assign_uid"
    /\ \E result_id_update \in AssignUidReplies \cup Failures :
        /\ calls' = Append(calls, Call("assign_uid", AssignUidJson(loc.temp, loc.uid),
                                       result_id_update))
        /\ resp' = IF Failed(result_id_update)
                  THEN OnFailure(ExceptFace, result_id_update.exc,
                                 "Face recognition service not available")
                  ELSE AssignUidResult(result_id_update, loc.temp)
    /\ pc' = "done"
    /\ UNCHANGED <<route, hdr, tok, body, loc, nreq, metricVars, ledgerLog,
                   codecVars, guardVars, concVars>>

\* (mutant) a 404 profile is answered like a found one
ExistingUserResult_404AsKnown(uid, user_details) ==
    IF ValidProfile(user_details.json)
    THEN Http(200, RecognitionResult(FALSE, uid, UserPublicProfile(user_details.json)))
    ELSE Http(200, RecognitionResult(FALSE, uid, NoUser))

\* (mutant) a found profile is answered as a new subject
ExistingUserResult_foundAsNew(uid, user_details) ==
    IF user_details.status = 404 \/ ValidProfile(user_details.json)
    THEN Http(200, RecognitionResult(TRUE, uid, NoUser))
    ELSE InternalServerError

\* (mutant) a 404 profile ends the request with an error
ExistingUserResult_404AsError(uid, user_details) ==
    IF user_details.status # 404 /\ ValidProfile(user_details.json)
    THEN Http(200, RecognitionResult(FALSE, uid, UserPublicProfile(user_details.json)))
    ELSE InternalServerError

\* 3.2 what the handler returns once the profile lookup has answered
ExistingUserResult(uid, user_details) ==
    IF user_details.status = 404
    THEN Http(200, RecognitionResult(TRUE, uid, NoUser))
    ELSE IF ValidProfile(user_details.json)
    THEN Http(200, RecognitionResult(FALSE, uid, UserPublicProfile(user_details.json)))
    ELSE InternalServerError

\* 3.1 requests.get(".../user/{uid}")
FaceGetUser ==
    /\ pc = "get_user"
    /\ \E user_details \in GetUserReplies(loc.uid) \cup Failures :
        /\ calls' = Append(calls, Call("get_user", [uid |-> loc.uid], user_details))
        /\ IF Failed(user_details)
          THEN /\ resp' = OnFailure(ExceptFace, user_details.exc,
                                    "User service not available")
               /\ loc' = loc
          ELSE /\ resp' = ExistingUserResult(loc.uid, user_details)
               /\ loc' = [loc EXCEPT !.profile_status = user_details.status,
                                      !.profile = user_details.json]
    /\ pc' = "done"
    /\ UNCHANGED <<route, hdr, tok, body, nreq, metricVars, ledgerLog,
                   codecVars, guardVars, concVars>>

FaceInit == FlowIdle /\ CodecIdle /\ GuardIdle /\ ConcIdle
FaceNext ==
    \/ Receive({"recognise"}, TRUE)
    \/ Respond
    \/ FaceRecognise
    \/ FaceTempUser
    \/ FaceAssignUid
    \/ FaceGetUser
SpecFace == FaceInit /\ [][FaceNext]_vars

----------------------------------------------------------------------------
(* src/src/cashier_router.py: get_items_details, record_transaction *)

\* ItemInventory records of the shop service
Catalogue(iid) ==
    [iid |-> iid, price |-> IF iid = "A" THEN 10 ELSE 20,
     percent_point_allocation |-> IF iid = "A" THEN 5 ELSE 0, shop_id |-> "s1"]
\* The shop service answers /items/get with a list of its records: any of
\* them, in any order and number
ItemsGetReplies == {Answer(200, items) : items \in SeqsUpTo({Catalogue(i) : i \in ItemIds}, MaxItems)}
CreateTransactionReplies == {Answer(200, [tid |-> "tx1"]), Answer(422, ErrorJson)}

\* iids = [record[0] for record in transaction_create.item_id_quantity]
Iids(item_id_quantity) == [i \in 1..Len(item_id_quantity) |-> item_id_quantity[i][1]]

\* (mutant) the shop id of the token is not checked
NoShopId_unchecked(token) == FALSE

\* shop_id = token.get("shop_id"); if not shop_id
NoShopId(token) == "shop_id" \notin DOMAIN token \/ token["shop_id"] = ""

\* The item_id_list get_items_details is called with
SelectedItems == IF route = "record_transaction" THEN Iids(body.item_id_quantity)
                 ELSE body.item_id_list

\* get_items_details, as the route's handler and as the first step of
\* record_transaction
GetItemsDetails ==
    /\ pc = "get_items_details"
    /\ IF NoShopId(tok)
       THEN /\ resp' = HTTPException(401, "No shop_id included in token")
            /\ pc' = "done"
            /\ UNCHANGED <<calls, loc>>
       ELSE \E response \in ItemsGetReplies \cup Failures :
               /\ calls' = Append(calls, Call("items_get", [item_id_list |-> SelectedItems],
                                              response))
               /\ IF Failed(response)
                  THEN /\ resp' = OnFailure(ExceptTimeout, response.exc,
                                            "Shop service unavailable")
                       /\ pc' = "done"
                       /\ loc' = loc
                  ELSE IF route = "get_items_details"
                  THEN /\ resp' = Http(200, [items |-> response.json,
                                             total |-> Len(response.json)])
                       /\ pc' = "done"
                       /\ loc' = loc
                  ELSE /\ loc' = [loc EXCEPT !.item_details = response.json]
                       /\ pc' = "record_transaction"
                       /\ resp' = resp
    /\ UNCHANGED <<route, hdr, tok, body, nreq, metricVars, ledgerLog,
                   codecVars, guardVars, concVars>>

LineItem(item, id_quantity) ==
    [item_id |-> item.iid, quantity |-> id_quantity[2], unit_cost |-> item.price,
     point_allocation_percentage |-> item.percent_point_allocation]

\* (mutant) the quantities are read from the end of the caller's list
LineItems_reversed(items, item_id_quantity) ==
    [i \in 1..Min(Len(items), Len(item_id_quantity)) |->
        LineItem(items[i], item_id_quantity[Len(item_id_quantity) + 1 - i])]

\* [... for item, id_quantity in zip(item_details.items, transaction_create.item_id_quantity)]
LineItems(items, item_id_quantity) ==
    [i \in 1..Min(Len(items), Len(item_id_quantity)) |->
        LineItem(items[i], item_id_quantity[i])]

\* (mutant) the ledger call is tagged with a placeholder shop
TransactionData_noShop(token, transaction_create, item_details) ==
    [shop_id |-> "None",
     user_id |-> transaction_create.user_id,
     items |-> LineItems(item_details, transaction_create.item_id_quantity)]

\* (mutant) the buyer is the token's entity
TransactionData_tokenBuyer(token, transaction_create, item_details) ==
    [shop_id |-> IF "shop_id" \in DOMAIN token THEN token["shop_id"] ELSE "None",
     user_id |-> token["entity_id"],
     items |-> LineItems(item_details, transaction_create.item_id_quantity)]

\* data = {"shop_id": ..., "user_id": ..., "items": [...]}
TransactionData(token, transaction_create, item_details) ==
    [shop_id |-> IF "shop_id" \in DOMAIN token THEN token["shop_id"] ELSE "None",
     user_id |-> transaction_create.user_id,
     items |-> LineItems(item_details, transaction_create.item_id_quantity)]

\* record_transaction after get_items_details returned: the ledger call
RecordTransaction ==
    /\ pc = "record_transaction"
    /\ LET data == TransactionData(tok, body, loc.item_details) IN
       /\ \E response \in CreateTransactionReplies \cup Failures :
          /\ calls' = Append(calls, Call("create_transaction", data, response))
          /\ resp' = IF Failed(response)
                     THEN OnFailure(ExceptTimeout, response.exc,
                                    "Transaction service unavailable")
                     ELSE IF "tid" \in DOMAIN response.json
                     THEN Http(200, response.json)
                     ELSE InternalServerError
       /\ ledgerLog' = ledgerLog \cup {[token |-> hdr, items |-> body.item_id_quantity,
                                           body_user |-> body.user_id,
                                           user_id |-> data.user_id]}
    /\ pc' = "done"
    /\ UNCHANGED <<route, hdr, tok, body, loc, nreq, metricVars, codecVars, guardVars, concVars>>

TxnInit == FlowIdle /\ CodecIdle /\ GuardIdle /\ ConcIdle
TxnNext ==
    \/ Receive({"get_items_details", "record_transaction"}, TRUE)
    \/ Respond
    \/ Guard
    \/ GetItemsDetails
    \/ RecordTransaction
SpecTxn == TxnInit /\ [][TxnNext]_vars

----------------------------------------------------------------------------
(* src/src/cashier_router.py: merge_users; src/src/db_ops.py *)

MergeReplies(rename_request) ==
    {Answer(200, [new_uid |-> rename_request.new_uid]), Answer(404, ErrorJson)}
\* session.commit() of record_recognition_event: the row is written, or the
\* database raises
DbOutcomes == {"commit", "error"}

\* record_recognition_event: one row of table "recognitions"
record_recognition_event(rows, event_type, db) ==
    IF db = "commit" THEN Append(rows, event_type) ELSE rows

merge_users ==
    /\ pc = "merge_users"
    /\ \E result_id_update \in MergeReplies(body) \cup Failures, db \in DbOutcomes :
        /\ calls' = Append(calls, Call("merge", [new_uid |-> body.new_uid,
                                                 old_uid |-> body.old_uid],
                                       result_id_update))
        /\ IF Failed(result_id_update)
           THEN /\ resp' = OnFailure(ExceptBuiltins, result_id_update.exc,
                                     "Face recognition service not available")
                /\ UNCHANGED <<merged_recognitions, recognitions>>
           ELSE /\ merged_recognitions' = merged_recognitions + 1
                /\ recognitions' = record_recognition_event(recognitions, "merge", db)
                /\ resp' = IF db = "error" THEN InternalServerError
                           ELSE IF "new_uid" \in DOMAIN result_id_update.json
                           THEN Http(200, result_id_update.json)
                           ELSE InternalServerError
    /\ pc' = "done"
    /\ UNCHANGED <<route, hdr, tok, body, loc, nreq, face_recognitions,
                   confused_recognitions, ledgerLog, codecVars, guardVars, concVars>>

----------------------------------------------------------------------------
(* src/src/user_service_route.py: login_user, get_user_balance *)

LoginReplies ==
    {Answer(200, [uid |-> u]) : u \in Users}
    \cup {Answer(403, ErrorJson), Answer(500, ErrorJson)}

LogInSuccessful(token) == [msg |-> "success", token |-> token]

\* (mutant) the user's token is issued at the cashier tier
UserToken_cashierTier(user) == issue_token(user.uid, CASHIER_LEVEL, Secret, EmptyMap)

\* issue_token(entity_id=str(user.uid), access_level=AccessLevel.USER_LEVEL, secret=...)
UserToken(user) == issue_token(user.uid, USER_LEVEL, Secret, EmptyMap)

login_user ==
    /\ pc = "login_user"
    /\ \E response \in LoginReplies \cup Failures :
        /\ calls' = Append(calls, Call("user_login", body, response))
        /\ resp' = IF Failed(response)
                   THEN OnFailure(ExceptTimeout, response.exc, "User service unavailable")
                   ELSE IF Rejected(response, 403)
                   THEN HTTPException(403, "Invalid credentials or user does not exist")
                   ELSE IF "uid" \in DOMAIN response.json
                   THEN Http(200, LogInSuccessful(UserToken(response.json)))
                   ELSE InternalServerError
    /\ pc' = "done"
    /\ UNCHANGED <<route, hdr, tok, body, loc, nreq, metricVars, ledgerLog,
                   codecVars, guardVars, concVars>>

\* (mutant) the user id is taken from the request parameters when they hold one
TokenUid_fromParams(token, params) ==
    IF "uid" \in DOMAIN params THEN params.uid ELSE token["entity_id"]

\* uid = token["entity_id"]; the request parameters are not consulted
TokenUid(token, params) == token["entity_id"]

MaxShops == 2
\* (shop id, balance) records of the ledger, and display names of the shop service
ShopBalances == {<<"s1", 100>>, <<"s2", 50>>}
ShopNameValues == {"Acme", "Beta"}
BalanceReplies(uid) ==
    {Answer(200, [user_id |-> uid, shops |-> sh]) : sh \in SeqsUpTo(ShopBalances, MaxShops)}
    \cup {Answer(500, ErrorJson)}
ShopNamesReplies ==
    {Answer(200, [names |-> n]) : n \in SeqsUpTo(ShopNameValues, MaxShops)}
    \cup {Answer(500, ErrorJson)}

\* get_user_balance, 1: requests.get(".../userdata/{uid}")
BalanceFetch ==
    /\ pc = "get_user_balance"
    /\ \E response \in BalanceReplies(TokenUid(tok, body)) \cup Failures :
        /\ calls' = Append(calls, Call("get_balances", [uid |-> TokenUid(tok, body)],
                                       response))
        /\ IF Failed(response)
           THEN /\ resp' = OnFailure(ExceptBuiltins, response.exc,
                                     "Transaction service unavailable")
                /\ pc' = "done"
                /\ loc' = loc
           ELSE IF "shops" \notin DOMAIN response.json
           THEN /\ resp' = InternalServerError
                /\ pc' = "done"
                /\ loc' = loc
           ELSE /\ loc' = [loc EXCEPT !.shops = response.json.shops]
                /\ pc' = "shop_names"
                /\ resp' = resp
    /\ UNCHANGED <<route, hdr, tok, body, nreq, metricVars, ledgerLog,
                   codecVars, guardVars, concVars>>

\* sids = [str(record[0]) ...], balances = [record[1] ...]
Column(records, k) == [i \in 1..Len(records) |-> records[i][k]]
\* list(zip(shop_names.names, balances))
Zip(a, b) == [i \in 1..Min(Len(a), Len(b)) |-> <<a[i], b[i]>>]

\* get_user_balance, 2: requests.post(".../shop/names", json=sids)
BalanceNames ==
    /\ pc = "shop_names"
    /\ \E shop_names_response \in ShopNamesReplies \cup Failures :
        /\ calls' = Append(calls, Call("shop_names", Column(loc.shops, 1),
                                       shop_names_response))
        /\ resp' = IF Failed(shop_names_response)
                   THEN OnFailure(ExceptBuiltins, shop_names_response.exc,
                                  "Shop service unavailable")
                   ELSE IF "names" \notin DOMAIN shop_names_response.json
                   THEN InternalServerError
                   ELSE Http(200, [user_id |-> TokenUid(tok, body),
                                   shops |-> Zip(shop_names_response.json.names,
                                                 Column(loc.shops, 2))])
        /\ loc' = IF ~Failed(shop_names_response)
                     /\ "names" \in DOMAIN shop_names_response.json
                  THEN [loc EXCEPT !.names = shop_names_response.json.names]
                  ELSE loc
    /\ pc' = "done"
    /\ UNCHANGED <<route, hdr, tok, body, nreq, metricVars, ledgerLog,
                   codecVars, guardVars, concVars>>

\* Transaction records of the ledger
TransactionRecords ==
    {[tid |-> "x1", shop_id |-> "s1", user_id |-> "u1", total_cost |-> 30],
     [tid |-> "x2", shop_id |-> "s2", user_id |-> "u1", total_cost |-> 5]}
TransactionsReplies ==
    {Answer(200, [transactions |-> page]) : page \in SeqsUpTo(TransactionRecords, MaxShops)}
    \cup {Answer(500, ErrorJson)}

\* get_user_transactions, 1: requests.get(".../userdata/transactions/{uid}")
TransactionsFetch ==
    /\ pc = "get_user_transactions"
    /\ \E response \in TransactionsReplies \cup Failures :
        /\ calls' = Append(calls, Call("get_transactions",
                                       [uid |-> TokenUid(tok, body), offset |-> body.offset,
                                        limit |-> body.limit], response))
        /\ IF Failed(response)
           THEN /\ resp' = OnFailure(ExceptBuiltins, response.exc,
                                     "Transaction service unavailable")
                /\ pc' = "done"
                /\ loc' = loc
           ELSE IF "transactions" \notin DOMAIN response.json
           THEN /\ resp' = InternalServerError
                /\ pc' = "done"
                /\ loc' = loc
           ELSE /\ loc' = [loc EXCEPT !.transactions = response.json.transactions]
                /\ pc' = "transactions_shop_names"
                /\ resp' = resp
    /\ UNCHANGED <<route, hdr, tok, body, nreq, metricVars, ledgerLog,
                   codecVars, guardVars, concVars>>

\* (mutant) the name lookup carries the first shop id only
ShopIdsOf_first(transactions) ==
    [i \in 1..Min(1, Len(transactions)) |-> transactions[i].shop_id]

\* [str(transaction.shop_id) for transaction in transactions.transactions]
ShopIdsOf(transactions) == [i \in 1..Len(transactions) |-> transactions[i].shop_id]

\* FrontendTransaction(**transaction.model_dump(), shop_name=shop_name)
FrontendTransaction(transaction, shop_name) ==
    [key \in DOMAIN transaction \cup {"shop_name"} |->
        IF key = "shop_name" THEN shop_name ELSE transaction[key]]

\* (mutant) the names are attached from the end of the list
AttachNames_reversed(transactions, names) ==
    [i \in 1..Min(Len(transactions), Len(names)) |->
        FrontendTransaction(transactions[i], names[Len(names) + 1 - i])]

\* [... for transaction, shop_name in zip(transactions.transactions, shop_names.names)]
AttachNames(transactions, names) ==
    [i \in 1..Min(Len(transactions), Len(names)) |->
        FrontendTransaction(transactions[i], names[i])]

\* get_user_transactions, 2: requests.post(".../shop/names", json=[shop ids])
TransactionsNames ==
    /\ pc = "transactions_shop_names"
    /\ \E shop_names_response \in ShopNamesReplies \cup Failures :
        /\ calls' = Append(calls, Call("shop_names", ShopIdsOf(loc.transactions),
                                       shop_names_response))
        /\ resp' = IF Failed(shop_names_response)
                   THEN OnFailure(ExceptBuiltins, shop_names_response.exc,
                                  "Shop service unavailable")
                   ELSE IF "names" \notin DOMAIN shop_names_response.json
                   THEN InternalServerError
                   ELSE Http(200, [transactions |->
                            AttachNames(loc.transactions, shop_names_response.json.names)])
        /\ loc' = IF ~Failed(shop_names_response)
                     /\ "names" \in DOMAIN shop_names_response.json
                  THEN [loc EXCEPT !.names = shop_names_response.json.names]
                  ELSE loc
    /\ pc' = "done"
    /\ UNCHANGED <<route, hdr, tok, body, nreq, metricVars, ledgerLog,
                   codecVars, guardVars, concVars>>

\* The fields of the response model User that the replies carry
UserFields == {"uid", "first_name", "user_name", "email"}
\* get_user: requests.get(".../user/{uid}") with the uid of the token
get_user ==
    /\ pc = "get_user_by_token"
    /\ \E response \in GetUserReplies(TokenUid(tok, body)) \cup Failures :
        /\ calls' = Append(calls, Call("get_user", [uid |-> TokenUid(tok, body)], response))
        /\ resp' = IF Failed(response)
                   THEN OnFailure(ExceptBuiltins, response.exc, "User service unavailable")
                   ELSE IF UserFields \subseteq DOMAIN response.json
                   THEN Http(200, response.json)
                   ELSE InternalServerError
    /\ pc' = "done"
    /\ UNCHANGED <<route, hdr, tok, body, loc, nreq, metricVars, ledgerLog,
                   codecVars, guardVars, concVars>>

SpecAggInit == FlowIdle /\ CodecIdle /\ GuardIdle /\ ConcIdle
SpecAggNext ==
    \/ Receive({"get_user_balance", "get_user_transactions"}, TRUE)
    \/ Respond
    \/ Guard
    \/ BalanceFetch
    \/ BalanceNames
    \/ TransactionsFetch
    \/ TransactionsNames
SpecAgg == SpecAggInit /\ [][SpecAggNext]_vars

----------------------------------------------------------------------------
(* src/src/cashier_router.py: note_user_confusion;
   src/src/shop_router.py: create_cashier *)

\* total_confused_recognitions.inc(), record_recognition_event("confusion")
note_user_confusion ==
    /\ pc = "note_user_confusion"
    /\ \E db \in DbOutcomes :
        /\ confused_recognitions' = confused_recognitions + 1
        /\ recognitions' = record_recognition_event(recognitions, "confusion", db)
        /\ resp' = IF db = "error" THEN InternalServerError ELSE Http(200, EmptyMap)
    /\ pc' = "done"
    /\ UNCHANGED <<route, hdr, tok, body, loc, calls, nreq, face_recognitions,
                   merged_recognitions, ledgerLog, codecVars, guardVars, concVars>>

CreateCashierReplies(account_name, shop_id) ==
    {Answer(200, [cid |-> "c2", account_name |-> account_name, shop_id |-> shop_id]),
     Answer(400, ErrorJson)}

\* create_cashier: requests.post(".../cashier/")
create_cashier ==
    /\ pc = "create_cashier"
    /\ LET json == [account_name |-> body.account_name, shop_id |-> tok["entity_id"],
                    password |-> body.password] IN
       \E response \in CreateCashierReplies(body.account_name, tok["entity_id"])
                       \cup Failures :
        /\ calls' = Append(calls, Call("create_cashier", json, response))
        /\ resp' = IF Failed(response)
                   THEN OnFailure(ExceptTimeout, response.exc, "Shop service unavailable")
                   ELSE IF Rejected(response, 400)
                   THEN HTTPException(400, "Account Already Exists")
                   ELSE IF "cid" \in DOMAIN response.json
                   THEN Http(200, response.json)
                   ELSE InternalServerError
    /\ pc' = "done"
    /\ UNCHANGED <<route, hdr, tok, body, loc, nreq, metricVars, ledgerLog,
                   codecVars, guardVars, concVars>>

----------------------------------------------------------------------------
(* Logins and account creation: src/src/cashier_router.py login_cashier,
   src/src/shop_router.py login_shop, src/src/user_service_route.py create_user;
   src/src/cashier_router.py get_inventory *)

CashierIds == {"c1"}
CashierLoginReplies ==
    {Answer(200, [cid |-> c, account_name |-> "till1", shop_id |-> sh]) :
        c \in CashierIds, sh \in ShopIds}
    \cup {Answer(403, ErrorJson), Answer(500, ErrorJson)}

\* (mutant) the cashier's token carries no shop
CashierToken_noShop(cashier) == issue_token(cashier.cid, CASHIER_LEVEL, Secret, EmptyMap)

\* issue_token(entity_id=str(cashier.cid), access_level=AccessLevel.CASHIER_LEVEL,
\*             secret=..., shop_id=str(cashier.shop_id))
CashierToken(cashier) ==
    issue_token(cashier.cid, CASHIER_LEVEL, Secret, [shop_id |-> cashier.shop_id])

login_cashier ==
    /\ pc = "login_cashier"
    /\ \E response \in CashierLoginReplies \cup Failures :
        /\ calls' = Append(calls, Call("cashier_login", body, response))
        /\ resp' = IF Failed(response)
                   THEN OnFailure(ExceptTimeout, response.exc, "Cashier service unavailable")
                   ELSE IF Rejected(response, 403)
                   THEN HTTPException(403, "Invalid credentials or cashier/shop does not exist")
                   ELSE IF {"cid", "account_name", "shop_id"} \subseteq DOMAIN response.json
                   THEN Http(200, LogInSuccessful(CashierToken(response.json)))
                   ELSE InternalServerError
    /\ pc' = "done"
    /\ UNCHANGED <<route, hdr, tok, body, loc, nreq, metricVars, ledgerLog,
                   codecVars, guardVars, concVars>>

ShopLoginReplies ==
    {Answer(200, [sid |-> sh, nickname |-> "acme"]) : sh \in ShopIds}
    \cup {Answer(403, ErrorJson), Answer(500, ErrorJson)}

\* issue_token(entity_id=str(shop.sid), access_level=AccessLevel.STORE_MANAGEMENT_LEVEL,
\*             secret=...)
ShopToken(shop) == issue_token(shop.sid, STORE_MANAGEMENT_LEVEL, Secret, EmptyMap)

login_shop ==
    /\ pc = "login_shop"
    /\ \E response \in ShopLoginReplies \cup Failures :
        /\ calls' = Append(calls, Call("shop_login", body, response))
        /\ resp' = IF Failed(response)
                   THEN OnFailure(ExceptTimeout, response.exc, "Shop service unavailable")
                   ELSE IF Rejected(response, 403)
                   THEN HTTPException(403, "Invalid credentials or shop does not exist")
                   ELSE IF {"sid", "nickname"} \subseteq DOMAIN response.json
                   THEN Http(200, LogInSuccessful(ShopToken(response.json)))
                   ELSE InternalServerError
    /\ pc' = "done"
    /\ UNCHANGED <<route, hdr, tok, body, loc, nreq, metricVars, ledgerLog,
                   codecVars, guardVars, concVars>>

CreateUserReplies ==
    {Answer(200, [uid |-> u]) : u \in Users}
    \cup {Answer(400, ErrorJson), Answer(500, ErrorJson)}

create_user ==
    /\ pc = "create_user"
    /\ \E response \in CreateUserReplies \cup Failures :
        /\ calls' = Append(calls, Call("user_create", body, response))
        /\ resp' = IF Failed(response)
                   THEN OnFailure(ExceptBuiltins, response.exc, "User service unavailable")
                   ELSE IF Rejected(response, 400)
                   THEN HTTPException(400, "Either the user exists, or the temporal user does not")
                   ELSE IF "uid" \in DOMAIN response.json
                   THEN Http(200, LogInSuccessful(UserToken(response.json)))
                   ELSE InternalServerError
    /\ pc' = "done"
    /\ UNCHANGED <<route, hdr, tok, body, loc, nreq, metricVars, ledgerLog,
                   codecVars, guardVars, concVars>>

InventoryReplies ==
    {Answer(200, [items |-> <<Catalogue("A")>>, total |-> 1]), Answer(500, ErrorJson)}

\* get_inventory: requests.get(".../shop/{shop_id}/items")
get_inventory ==
    /\ pc = "get_inventory"
    /\ IF NoShopId(tok)
       THEN /\ resp' = HTTPException(401, "No shop_id included in token")
            /\ calls' = calls
       ELSE \E response \in InventoryReplies \cup Failures :
               /\ calls' = Append(calls, Call("shop_items",
                                              [shop_id |-> IF "shop_id" \in DOMAIN tok
                                                           THEN tok["shop_id"] ELSE "None"],
                                              response))
               /\ resp' = IF Failed(response)
                          THEN OnFailure(ExceptTimeout, response.exc,
                                         "Shop service unavailable")
                          ELSE IF {"items", "total"} \subseteq DOMAIN response.json
                          THEN Http(200, response.json)
                          ELSE InternalServerError
    /\ pc' = "done"
    /\ UNCHANGED <<route, hdr, tok, body, loc, nreq, metricVars, ledgerLog,
                   codecVars, guardVars, concVars>>

----------------------------------------------------------------------------
(* All routes *)

Init == FlowIdle /\ CodecIdle /\ GuardIdle /\ ConcIdle
Next ==
    \/ Receive(Routes, FALSE)
    \/ Respond
    \/ Guard
    \/ FaceRecognise
    \/ FaceTempUser
    \/ FaceAssignUid
    \/ FaceGetUser
    \/ GetItemsDetails
    \/ RecordTransaction
    \/ merge_users
    \/ login_user
    \/ BalanceFetch
    \/ BalanceNames
    \/ TransactionsFetch
    \/ TransactionsNames
    \/ get_user
    \/ note_user_confusion
    \/ create_cashier
    \/ login_cashier
    \/ login_shop
    \/ create_user
    \/ get_inventory
Spec == Init /\ [][Next]_vars

----------------------------------------------------------------------------
(* Claims about the orchestration flows *)

CallsOf(op) == {i \in DOMAIN calls : calls[i].op = op}
Ops == [i \in DOMAIN calls |-> calls[i].op]
IsPrefix(a, b) == Len(a) <= Len(b) /\ \A i \in DOMAIN a : a[i] = b[i]

\* The inventory lookup returned one record per requested id, in the
\* requested order
LookupMatches ==
    /\ Len(loc.item_details) = Len(body.item_id_quantity)
    /\ \A i \in DOMAIN loc.item_details :
          loc.item_details[i].iid = body.item_id_quantity[i][1]

\* C6: when the inventory lookup returns one record per requested id in the
\* requested order, the single ledger request holds, at every position i, the
\* item id and quantity of requested pair i with the price and the
\* point-allocation percent of record i, in the caller's order and length.
C6_LineItemsZip ==
    (route = "record_transaction" /\ LookupMatches /\ CallsOf("create_transaction") # {}) =>
        /\ Cardinality(CallsOf("create_transaction")) = 1
        /\ \A c \in CallsOf("create_transaction") :
              LET items == calls[c].arg.items IN
              /\ Len(items) = Len(body.item_id_quantity)
              /\ \A i \in DOMAIN items :
                    items[i] = [item_id |-> body.item_id_quantity[i][1],
                                quantity |-> body.item_id_quantity[i][2],
                                unit_cost |-> loc.item_details[i].price,
                                point_allocation_percentage |->
                                    loc.item_details[i].percent_point_allocation]

C6_Witness ==
    /\ route = "record_transaction"
    /\ body.item_id_quantity = <<<<"A", 2>>, <<"B", 1>>>>
    /\ LookupMatches
    /\ \E c \in CallsOf("create_transaction") :
          calls[c].arg.items =
              <<[item_id |-> "A", quantity |-> 2, unit_cost |-> 10,
                 point_allocation_percentage |-> 5],
                [item_id |-> "B", quantity |-> 1, unit_cost |-> 20,
                 point_allocation_percentage |-> 0]>>

\* C7 as stated: the buyer id comes from the token, not from the body: two
\* record_transaction requests with the same token and item list send the
\* same buyer id to the ledger, whatever user_id their bodies hold.
C7_BuyerFromToken ==
    \A e1, e2 \in ledgerLog :
        (e1.token = e2.token /\ e1.items = e2.items) => e1.user_id = e2.user_id

\* C7 (amended): the buyer id sent to the ledger is the user_id of the
\* request body (the token gives the shop id only), so two requests with the
\* same token and item list and different body user_id send different buyers.
C7_BuyerFromBody ==
    /\ \A e \in ledgerLog : e.user_id = e.body_user
    /\ \A c \in CallsOf("create_transaction") :
          /\ calls[c].arg.user_id = body.user_id
          /\ calls[c].arg.shop_id = tok["shop_id"]

C7_Witness ==
    \E e1, e2 \in ledgerLog :
        /\ e1.token = e2.token
        /\ e1.items = e2.items
        /\ e1.body_user # e2.body_user
        /\ e1.user_id # e2.user_id

\* C8: a ledger request is submitted only when the inventory lookup returned
\* as many records as the caller requested pairs, and never with fewer line
\* items than the caller requested.
C8_MismatchNeverSubmitted ==
    route = "record_transaction" =>
        \A c \in CallsOf("create_transaction") :
            /\ Len(loc.item_details) = Len(body.item_id_quantity)
            /\ Len(calls[c].arg.items) = Len(body.item_id_quantity)

\* the failing input: two pairs requested, one record returned, one line item sent
C8_ShortRequestSent ==
    /\ route = "record_transaction"
    /\ Len(body.item_id_quantity) = 2
    /\ Len(loc.item_details) = 1
    /\ \E c \in CallsOf("create_transaction") : Len(calls[c].arg.items) = 1

\* The request is an identity resolution whose subject was recognised
\* (is_new = false) and whose profile lookup answered 404
RecognisedButNoProfile ==
    /\ route = "recognise"
    /\ pc = "done"
    /\ ~loc.new
    /\ loc.profile_status = 404

\* C9 as stated: recognised, profile 404: the flow allocates a fresh
\* temporary id, has the recognition backend re-associate the subject with
\* it, and returns assumed_new = true with the new temporary id.
C9_FallThroughToAllocation ==
    RecognisedButNoProfile =>
        /\ CallsOf("temp_user") # {}
        /\ CallsOf("assign_uid") # {}
        /\ resp.status = 200
        /\ resp.body.assummed_new
        /\ resp.body.uid \in TempIds

\* C9 (amended): recognised, profile 404: the flow returns assumed_new = true
\* with the recognised subject id itself; it allocates no temporary id and
\* issues no reassignment.
C9_AssumedNewKeepsSubjectId ==
    RecognisedButNoProfile =>
        /\ Ops = <<"recognise", "get_user">>
        /\ calls[2].arg.uid = loc.uid
        /\ resp = Http(200, RecognitionResult(TRUE, loc.uid, NoUser))

C9_Witness ==
    /\ RecognisedButNoProfile
    /\ resp.body.assummed_new
    /\ resp.body.uid = "f2"

\* C10: with is_new = true the calls go out in the order recognise,
\* temporary-id allocation, reassignment; the reassignment receives exactly
\* (old = recognised subject id, new = allocated temporary id), and the
\* result is assumed_new = true with that temporary id.
C10_NewSubjectFlow ==
    (route = "recognise" /\ loc.new) =>
        /\ IsPrefix(Ops, <<"recognise", "temp_user", "assign_uid">>)
        /\ \A c \in CallsOf("assign_uid") :
              /\ loc.temp \in TempIds
              /\ calls[c].arg = [old_uid |-> loc.uid, new_uid |-> loc.temp]
        /\ (pc = "done" /\ resp.status = 200) =>
              /\ Ops = <<"recognise", "temp_user", "assign_uid">>
              /\ resp.body = RecognitionResult(TRUE, loc.temp, NoUser)

C10_Witness ==
    /\ route = "recognise"
    /\ loc.new
    /\ pc = "done"
    /\ resp.status = 200
    /\ loc.uid = "f1"
    /\ resp.body.uid = "t2"
    /\ calls[3].arg = [old_uid |-> "f1", new_uid |-> "t2"]

\* Some downstream call of the request in progress timed out or could not
\* connect
SomeCallFailed == \E i \in DOMAIN calls : calls[i].exc \in RequestFailures

\* C5: a timeout or a connection failure of a downstream call ends the
\* client request with the 'service unavailable' outcome (HTTP 550) and with
\* no other outcome.
C5_FailureIsUnavailable ==
    (pc = "done" /\ SomeCallFailed) => resp.status = 550

\* the failing input: login while the user service refuses the connection
C5_LoginFaults ==
    /\ pc = "done"
    /\ route = "login_user"
    /\ calls[1].exc = "ConnectionError"
    /\ resp.status = 500

----------------------------------------------------------------------------
(* The claim set the guard hands to the handler *)

\* C20: whenever the guard admits a request, the claim set it hands to the
\* handler equals the claims obtained by signature-verified decoding of the
\* token (same entity_id, access_level and extra fields), and is never none.
C20_HandsVerifiedClaims ==
    (gPc = "checked" /\ gRes.out = Admitted) =>
        /\ gRes.claims # PyNone
        /\ verify_token(gTok, Secret).ok
        /\ gRes.claims = Obj(verify_token(gTok, Secret).claims)

\* the failing input: the token issued for entity_id "~aa~bb~1a~aa" is
\* admitted and the handler is handed another entity_id
C20_HandsOtherEntity ==
    /\ gPc = "checked"
    /\ gTok = issue_token(TwoFacedId, USER_LEVEL, Secret, EmptyMap)
    /\ gRes.out = Admitted
    /\ verify_token(gTok, Secret).claims["entity_id"] = TwoFacedId
    /\ gRes.claims.v["entity_id"] # TwoFacedId

----------------------------------------------------------------------------
(* Identity resolution of a recognised subject *)

\* The request is an identity resolution whose subject was recognised
\* (is_new = false) and whose profile lookup answered with a valid profile
RecognisedWithProfile ==
    /\ route = "recognise"
    /\ pc = "done"
    /\ ~loc.new
    /\ loc.profile_status = 200
    /\ ValidProfile(loc.profile)

\* C11: recognised, profile found: the result is assumed_new = false with the
\* recognised subject id and the fetched public profile, and the request
\* issues neither a temporary-id allocation nor a reassignment.
C11_KnownSubject ==
    RecognisedWithProfile =>
        /\ resp = Http(200, RecognitionResult(FALSE, loc.uid, UserPublicProfile(loc.profile)))
        /\ CallsOf("temp_user") = {}
        /\ CallsOf("assign_uid") = {}

C11_Witness ==
    /\ RecognisedWithProfile
    /\ loc.uid = "f1"
    /\ resp.body = RecognitionResult(FALSE, "f1",
                       [uid |-> "f1", first_name |-> "Ann", user_name |-> "ann"])
    /\ Ops = <<"recognise", "get_user">>

\* C12: recognised, profile 404: the output has assumed_new = true and a
\* subject id, and the request holds at most one temporary-id allocation
\* call.
C12_AssumedNewOneAllocation ==
    /\ RecognisedButNoProfile =>
          /\ resp.status = 200
          /\ resp.body.assummed_new
          /\ resp.body.uid \in FaceUids \cup TempIds
    /\ route = "recognise" => Cardinality(CallsOf("temp_user")) <= 1

C12_Witness ==
    /\ RecognisedButNoProfile
    /\ resp.status = 200
    /\ resp.body.assummed_new
    /\ resp.body.uid = "f1"
    /\ Cardinality(CallsOf("temp_user")) = 0

----------------------------------------------------------------------------
(* Aggregation: balances and transaction history with shop names *)

AggRoutes == {"get_user_balance", "get_user_transactions"}
\* The base records of the request, once the ledger has answered with them
BaseFetched ==
    /\ route \in AggRoutes
    /\ Len(calls) >= 1
    /\ calls[1].exc = "none"
    /\ calls[1].status = 200
BaseRecords == IF route = "get_user_balance" THEN loc.shops ELSE loc.transactions
\* The shop service has answered the name lookup with a list of names
NamesAnswered ==
    /\ BaseFetched
    /\ pc = "done"
    /\ \E c \in CallsOf("shop_names") : calls[c].exc = "none" /\ calls[c].status = 200

\* C13: when the name lookup returns one name per base record, the output
\* has the length and order of the base records and element i pairs names[i]
\* with base record i: (names[i], balance i), or transaction i with every
\* field unchanged and shop_name = names[i].
C13_PositionalJoin ==
    (NamesAnswered /\ Len(loc.names) = Len(BaseRecords)) =>
        /\ resp.status = 200
        /\ route = "get_user_balance" =>
              /\ Len(resp.body.shops) = Len(loc.shops)
              /\ \A i \in DOMAIN loc.shops :
                    resp.body.shops[i] = <<loc.names[i], loc.shops[i][2]>>
        /\ route = "get_user_transactions" =>
              /\ Len(resp.body.transactions) = Len(loc.transactions)
              /\ \A i \in DOMAIN loc.transactions :
                    LET out == resp.body.transactions[i] IN
                    /\ DOMAIN out = DOMAIN loc.transactions[i] \cup {"shop_name"}
                    /\ \A key \in DOMAIN loc.transactions[i] :
                          out[key] = loc.transactions[i][key]
                    /\ out.shop_name = loc.names[i]

C13_Witness ==
    /\ NamesAnswered
    /\ route = "get_user_balance"
    /\ loc.shops = <<<<"s1", 100>>, <<"s2", 50>>>>
    /\ loc.names = <<"Acme", "Beta">>
    /\ resp.body.shops = <<<<"Acme", 100>>, <<"Beta", 50>>>>

\* C14: whenever the name list has another length than the base-record list,
\* the request fails; it never returns an enriched list shorter than the
\* base-record list.
C14_MismatchFails ==
    (NamesAnswered /\ Len(loc.names) # Len(BaseRecords)) =>
        /\ resp.status # 200
        /\ resp.status >= 500

\* the failing input: two balances, one name, a list of one pair returned
C14_ShortListReturned ==
    /\ NamesAnswered
    /\ route = "get_user_balance"
    /\ Len(loc.shops) = 2
    /\ Len(loc.names) = 1
    /\ resp.status = 200
    /\ Len(resp.body.shops) = 1

\* C15: a balance or transaction-history request issues one name-lookup call
\* that carries every shop id of the page, in order; the request that
\* received its base records ends after two downstream calls, whatever the
\* number of base records.
C15_OneBatchedLookup ==
    route \in AggRoutes =>
        /\ Cardinality(CallsOf("shop_names")) <= 1
        /\ Len(calls) <= 2
        /\ \A c \in CallsOf("shop_names") :
              /\ c = 2
              /\ Len(calls[c].arg) = Len(BaseRecords)
              /\ \A i \in DOMAIN BaseRecords :
                    calls[c].arg[i] = IF route = "get_user_balance"
                                      THEN loc.shops[i][1]
                                      ELSE loc.transactions[i].shop_id
        /\ (BaseFetched /\ pc = "done") =>
              /\ Len(calls) = 2
              /\ calls[2].op = "shop_names"

C15_Witness ==
    /\ route = "get_user_transactions"
    /\ BaseFetched
    /\ pc = "done"
    /\ Len(loc.transactions) = 2
    /\ Len(calls) = 2
    /\ calls[2].arg = <<"s1", "s2">>

----------------------------------------------------------------------------
(* Effects of a request: downstream calls, counters, audit rows *)

\* The recognition backend answered the merge call of the request with 200
MergeSucceeded ==
    /\ route = "merge_users"
    /\ \E c \in CallsOf("merge") : calls[c].exc = "none" /\ calls[c].status = 200

\* C16: the merged-recognitions counter is incremented and a 'merge' audit
\* record is appended only in a request whose merge call succeeded; when the
\* call fails or the backend rejects it, neither changes.
C16_CommitOnSuccess ==
    [][(route = "merge_users" /\ (merged_recognitions' # merged_recognitions
                                  \/ recognitions' # recognitions))
          => MergeSucceeded']_vars

\* the failing input: the backend answers the merge with 404, the counter
\* and the audit table have the merge
C16_RejectedMergeCounted ==
    /\ route = "merge_users"
    /\ pc = "done"
    /\ Len(calls) = 1
    /\ calls[1].status = 404
    /\ merged_recognitions = 1
    /\ recognitions = <<"merge">>

\* C17: once a downstream call of the request has failed, no further
\* downstream call is issued and no counter or audit record is written in
\* that request; the ledger call of transaction creation is issued only
\* after the inventory lookup has answered.
C17_AbortOnFailure ==
    /\ [][SomeCallFailed =>
            /\ calls' = calls \/ calls' = <<>>
            /\ UNCHANGED <<metricVars, ledgerLog>>]_vars
    /\ [](\A c \in CallsOf("create_transaction") :
             /\ c = 2
             /\ calls[1].op = "items_get"
             /\ calls[1].exc = "none")

C17_Witness ==
    /\ route = "recognise"
    /\ pc = "done"
    /\ Ops = <<"recognise", "temp_user">>
    /\ calls[2].exc = "ReadTimeout"
    /\ resp.status >= 500

\* C18: within one request every downstream call step is issued at most
\* once, whether it succeeds or fails, and the request ends with exactly one
\* outcome.
C18_NoRetryOneOutcome ==
    /\ \A i, j \in DOMAIN calls : calls[i].op = calls[j].op => i = j
    /\ pc = "done" <=> resp # NoResp
    /\ pc = "done" => resp.status \in {200, 400, 401, 403, 500, 550}

C18_Witness ==
    /\ route = "record_transaction"
    /\ pc = "done"
    /\ Ops = <<"items_get", "create_transaction">>
    /\ calls[2].exc = "ConnectTimeout"
    /\ resp # NoResp

\* The token of the request is signed with the secret and states the tier
\* of the route
TokenFitsRoute == SignedBySecret(hdr) /\ TokenLevelIs(hdr, RouteLevel(route))

\* C19: on a protected route no downstream call, counter increment or audit
\* write happens in a request the guard rejected: each of them is preceded by
\* the guard admitting that request.
C19_EffectsOnlyAfterAdmission ==
    /\ [][(route \in ProtectedRoutes
           /\ \/ calls' # calls /\ calls' # <<>>
              \/ metricVars' # metricVars
              \/ ledgerLog' # ledgerLog)
          => TokenFitsRoute /\ pc # "guard"]_vars
    /\ []((route \in ProtectedRoutes /\ calls # <<>>) => TokenFitsRoute)

C19_Witness ==
    /\ route = "create_cashier"
    /\ hdr = CashierTok
    /\ pc = "done"
    /\ resp.status = 403
    /\ calls = <<>>

----------------------------------------------------------------------------
(* Tampering with the signature segment *)

\* The presented token has the header and payload segments of a token
\* issued with the secret, and another signature segment
SignatureTampered ==
    /\ gPc = "checked"
    /\ \E e \in EntityIds, level \in AccessLevel, x \in Extras :
          LET issued == issue_token(e, level, Secret, x) IN
          /\ Len(gTok.segs) = 3
          /\ gTok.segs[1] = issued.segs[1]
          /\ gTok.segs[2] = issued.segs[2]
          /\ gTok.segs[3] # issued.segs[3]

\* C25: every token that differs from a token issued with the secret only
\* in the signature segment fails verification under that secret, and the
\* guard never admits it.
C25_TamperedSignatureFails ==
    SignatureTampered =>
        /\ ~verify_token(gTok, Secret).ok
        /\ gRes.out # Admitted

\* the failing input: the signature segment spelled with another last
\* character, which decodes to the same MAC
C25_RespelledSignatureAdmitted ==
    /\ SignatureTampered
    /\ gTok.segs[3].b64 = "respelled"
    /\ verify_token(gTok, Secret).ok
    /\ gRes.out = Admitted

----------------------------------------------------------------------------
(* Reassignment of a new subject's id *)

\* The reassignment calls of the request that the backend answered
AnsweredAssign == {i \in CallsOf("assign_uid") : calls[i].exc = "none"}

\* C30: a temporary id is returned (with assumed_new = true) only when the
\* reassignment call was answered with status 200, and the id returned is the
\* one that call installed; when the reassignment is answered with any other
\* status the request ends with HTTP 550 and no id is returned.
C30_TempIdOnlyAfterAck ==
    route = "recognise" =>
        /\ (resp.status = 200 /\ resp.body.uid \in TempIds) =>
              /\ resp.body.assummed_new
              /\ \E i \in AnsweredAssign :
                    /\ calls[i].status = 200
                    /\ calls[i].arg.new_uid = resp.body.uid
        /\ \A i \in AnsweredAssign :
              calls[i].status # 200 =>
                  /\ resp.status = 550
                  /\ "uid" \notin DOMAIN resp.body

C30_Witness ==
    /\ route = "recognise"
    /\ \E i \in AnsweredAssign : calls[i].status = 404 /\ calls[i].arg.new_uid = "t1"
    /\ resp.status = 550
    /\ "uid" \notin DOMAIN resp.body

----------------------------------------------------------------------------
(* Logins and account creation *)

CreationRoutes == {"create_user", "create_cashier"}
\* The backend answered the request's one call with this status
BackendAnswered(status) ==
    /\ Len(calls) = 1
    /\ calls[1].exc = "none"
    /\ calls[1].status = status
TokenIssued == "token" \in DOMAIN resp.body

\* C23: a login the backend answers with 403 ends with the 403
\* invalid-credentials error, a user or cashier creation the backend answers
\* with 400 ends with the 400 error, and a response carries a token only when
\* the backend answered the login or creation with status 200.
C23_UpstreamRejected ==
    /\ (route \in LoginRoutes /\ BackendAnswered(403)) =>
          resp.status = 403 /\ ~TokenIssued
    /\ (route \in CreationRoutes /\ BackendAnswered(400)) =>
          resp.status = 400 /\ ~TokenIssued
    /\ TokenIssued =>
          /\ route \in LoginRoutes \cup {"create_user"}
          /\ BackendAnswered(200)
          /\ resp.status = 200

C23_Witness ==
    /\ route = "login_cashier"
    /\ BackendAnswered(403)
    /\ resp = HTTPException(403, "Invalid credentials or cashier/shop does not exist")

C23_CreationWitness ==
    /\ route = "create_user"
    /\ BackendAnswered(400)
    /\ resp.status = 400

\* The tier, subject and extra claims a login or creation route puts in its token
IssuedTier ==
    IF route = "login_cashier" THEN CASHIER_LEVEL
    ELSE IF route = "login_shop" THEN STORE_MANAGEMENT_LEVEL
    ELSE USER_LEVEL
IssuedSubject ==
    IF route = "login_cashier" THEN calls[1].json.cid
    ELSE IF route = "login_shop" THEN calls[1].json.sid
    ELSE calls[1].json.uid
IssuedClaims ==
    IF route = "login_cashier"
    THEN [entity_id |-> IssuedSubject, access_level |-> IssuedTier,
          shop_id |-> calls[1].json.shop_id]
    ELSE [entity_id |-> IssuedSubject, access_level |-> IssuedTier]

\* C27: the token a login or create_user returns verifies under the secret
\* with exactly the claims of its principal (user: USER tier and uid; cashier:
\* CASHIER tier, cashier id and the cashier's shop_id; shop: STORE_MANAGEMENT
\* tier and shop id), and the guard admits it at the tier of that principal
\* kind and at no other tier.
C27_TierBinding ==
    TokenIssued =>
        /\ verify_token(resp.body.token, Secret) = JwtOk(IssuedClaims)
        /\ \A level \in AccessLevel :
              ValidateHeader(level, Secret, resp.body.token).out = Admitted
                  <=> level = IssuedTier
        /\ ValidateHeader(IssuedTier, Secret, resp.body.token).claims = Obj(IssuedClaims)

C27_Witness ==
    /\ route = "login_cashier"
    /\ TokenIssued
    /\ verify_token(resp.body.token, Secret).claims["shop_id"] = calls[1].json.shop_id
    /\ ValidateHeader(USER_LEVEL, Secret, resp.body.token).out = Forbidden
    /\ ValidateHeader(CASHIER_LEVEL, Secret, resp.body.token).out = Admitted

----------------------------------------------------------------------------
(* Transaction creation: the ledger call and the inventory lookup *)

LedgerCalls == CallsOf("create_transaction")
LookupAnswered == Len(calls) >= 1 /\ calls[1].op = "items_get" /\ calls[1].exc = "none"

HasDuplicates(seq) == \E i, j \in DOMAIN seq : i # j /\ seq[i] = seq[j]

\* C24: every inventory lookup of a record_transaction request is the only
\* one of the request and carries each requested item id once.
C24_LookupCarriesDistinctIds ==
    route = "record_transaction" =>
        /\ Cardinality(CallsOf("items_get")) <= 1
        /\ \A i \in CallsOf("items_get") : ~HasDuplicates(calls[i].arg.item_id_list)

\* The caller listed item A in two pairs and the lookup carried A twice
C24_DuplicateIdsSent ==
    /\ route = "record_transaction"
    /\ body.item_id_quantity = <<<<"A", 2>>, <<"A", 2>>>>
    /\ Len(calls) >= 1
    /\ calls[1].op = "items_get"
    /\ calls[1].arg.item_id_list = <<"A", "A">>

----------------------------------------------------------------------------
(* Cashier routes that need the shop of the token *)

NeedShopRoutes == {"get_inventory", "get_items_details", "record_transaction"}
\* The guard admitted the request's token and its claims hold no shop_id
AdmittedWithoutShop ==
    /\ pc \notin {"idle", "guard"}
    /\ LET g == ValidateHeader(CASHIER_LEVEL, Secret, hdr) IN
       /\ g.out = Admitted
       /\ "shop_id" \notin DOMAIN g.claims.v

\* C26: on get_inventory, get_items_details and record_transaction a request
\* whose admitted token has no shop_id claim issues no downstream call and
\* ends with HTTP 401.
C26_NoShopNoCall ==
    (route \in NeedShopRoutes /\ AdmittedWithoutShop) =>
        /\ calls = <<>>
        /\ pc = "done" => resp.status = 401

C26_Witness ==
    /\ route = "record_transaction"
    /\ AdmittedWithoutShop
    /\ pc = "done"
    /\ calls = <<>>
    /\ resp = HTTPException(401, "No shop_id included in token")

C26_InventoryWitness ==
    /\ route = "get_inventory"
    /\ AdmittedWithoutShop
    /\ pc = "done"
    /\ resp.status = 401

----------------------------------------------------------------------------
(* USER-tier routes: whose data the backends are asked for *)

\* The backend calls that name a user
UidCalls == {"get_user", "get_balances", "get_transactions"}
AdmittedSubject == verify_token(hdr, Secret).claims["entity_id"]

\* C28: on get_user, get_user_transactions and get_user_balance the first call
\* names a user, and every call that names a user names the entity_id of the
\* admitted token, whatever the request parameters are (offset, limit, or a
\* uid the client adds); the remaining calls carry only shop ids of the
\* ledger's reply.
C28_TokenSubjectOnly ==
    (route \in UserRoutes /\ calls # <<>>) =>
        /\ calls[1].op \in UidCalls
        /\ \A i \in DOMAIN calls :
              IF calls[i].op \in UidCalls
              THEN calls[i].arg.uid = AdmittedSubject
              ELSE /\ calls[i].op = "shop_names"
                   /\ i = 2

C28_Witness ==
    /\ route = "get_user_transactions"
    /\ "uid" \in DOMAIN body
    /\ body.uid = "u2"
    /\ Len(calls) = 2
    /\ AdmittedSubject = "u1"
    /\ calls[1].arg.uid = "u1"
    /\ resp.status = 200

\* Another token, the same parameters: the other user's data is asked for
C28_OtherTokenWitness ==
    /\ route = "get_user"
    /\ body = EmptyMap
    /\ hdr = OtherUserTok
    /\ Len(calls) = 1
    /\ calls[1].arg.uid = "u2"

----------------------------------------------------------------------------
(* Counters and the audit table *)

AuditRows(event_type) ==
    Cardinality({i \in DOMAIN recognitions : recognitions[i] = event_type})

\* C29: the merged-recognitions counter equals the number of 'merge' audit
\* rows and the confused-recognitions counter equals the number of 'confusion'
\* audit rows, after any sequence of merge and confusion requests, also when
\* an audit write fails.
C29_CountersMatchAudit ==
    /\ merged_recognitions = AuditRows("merge")
    /\ confused_recognitions = AuditRows("confusion")

\* The audit write of a merge failed: the counter has the merge, the table
\* has not, and the request ended with 500
C29_CounterAheadOfAudit ==
    /\ route = "merge_users"
    /\ pc = "done"
    /\ resp.status = 500
    /\ merged_recognitions = 1
    /\ AuditRows("merge") = 0

----------------------------------------------------------------------------
(* Concurrent requests of one gateway process: src/main.py runs one uvicorn
   process; a sync handler (merge_users, note_user_confusion) runs on a worker
   thread, the async handler add_inventory runs on the event loop and has no
   await, so it is one step. The guard has admitted each request. *)

ConcShops == {"s1", "s2"}
\* An uploaded sheet: whether it has the five columns, and its rows
Sheets == [columns : BOOLEAN, rows : {"rowsA", "rowsB"}]
ConcRoutes == {"merge_users", "note_user_confusion", "add_inventory"}
ConcInputs(r) ==
    IF r = "add_inventory" THEN [filename : UploadNames, content : Sheets]
    ELSE Bodies(r)
ConcTokens(r) ==
    IF r = "add_inventory"
    THEN {[entity_id |-> s, access_level |-> STORE_MANAGEMENT_LEVEL] : s \in ConcShops}
    ELSE {[entity_id |-> "c1", access_level |-> CASHIER_LEVEL, shop_id |-> "s1"]}

ConcSet(p, c) == ctx' = [ctx EXCEPT ![p] = c]

ConcReceive(p) ==
    /\ ctx[p].pc = "idle"
    /\ nreq < MaxRequests
    /\ \E r \in ConcRoutes : \E t \in ConcTokens(r) : \E i \in ConcInputs(r) :
          ConcSet(p, [NoCtx EXCEPT !.pc = IF r = "note_user_confusion" THEN "inc" ELSE r,
                                   !.route = r, !.tok = t, !.input = i])
    /\ nreq' = nreq + 1
    /\ UNCHANGED <<uploads, reqVars, metricVars, ledgerLog, codecVars, guardVars>>

\* merge_users up to the counter: requests.post(".../frontend/merge")
ConcMergeCall(p) ==
    /\ ctx[p].pc = "merge_users"
    /\ \E result_id_update \in MergeReplies(ctx[p].input) \cup Failures :
        LET call == Call("merge", [new_uid |-> ctx[p].input.new_uid,
                                   old_uid |-> ctx[p].input.old_uid], result_id_update)
        IN  IF Failed(result_id_update)
            THEN ConcSet(p, [ctx[p] EXCEPT !.pc = "done", !.calls = <<call>>,
                                !.resp = OnFailure(ExceptBuiltins, result_id_update.exc,
                                                   "Face recognition service not available")])
            ELSE ConcSet(p, [ctx[p] EXCEPT !.pc = "inc", !.calls = <<call>>])
    /\ UNCHANGED <<uploads, reqVars, nreq, metricVars, ledgerLog, codecVars, guardVars>>

\* total_merged_recognitions.inc() / total_confused_recognitions.inc(): the
\* counter takes its lock for the addition
ConcInc(p) ==
    /\ ctx[p].pc = "inc"
    /\ IF ctx[p].route = "merge_users"
       THEN /\ merged_recognitions' = merged_recognitions + 1
            /\ UNCHANGED confused_recognitions
       ELSE /\ confused_recognitions' = confused_recognitions + 1
            /\ UNCHANGED merged_recognitions
    /\ ConcSet(p, [ctx[p] EXCEPT !.pc = "audit"])
    /\ UNCHANGED <<uploads, reqVars, nreq, face_recognitions, recognitions, ledgerLog,
                   codecVars, guardVars>>

\* record_recognition_event("merge") / ("confusion"), then the return
ConcAudit(p) ==
    /\ ctx[p].pc = "audit"
    /\ \E db \in DbOutcomes :
        /\ recognitions' = record_recognition_event(
                               recognitions,
                               IF ctx[p].route = "merge_users" THEN "merge" ELSE "confusion",
                               db)
        /\ ConcSet(p, [ctx[p] EXCEPT
               !.pc = "done",
               !.resp = IF db = "error" THEN InternalServerError
                        ELSE IF ctx[p].route = "note_user_confusion" THEN Http(200, EmptyMap)
                        ELSE IF "new_uid" \in DOMAIN ctx[p].calls[1].json
                        THEN Http(200, ctx[p].calls[1].json)
                        ELSE InternalServerError])
    /\ UNCHANGED <<uploads, reqVars, nreq, face_recognitions, merged_recognitions,
                   confused_recognitions, ledgerLog, codecVars, guardVars>>

\* file.filename.endswith(".xlsx") or file.filename.endswith(".xls")
ExcelName(filename) == filename = "catalogue.xlsx"

\* transform_file_into_request_objects(df, shop_id): the rows as items of the shop
transform_file_into_request_objects(df, shop_id) == [rows |-> df.rows, shop_id |-> shop_id]

AddItemsReplies(items_dict) == {Answer(200, items_dict), Answer(500, ErrorJson)}

\* add_inventory: the upload is written to uploads/<file.filename>, read back
\* with pd.read_excel, transformed and posted to the shop service
ConcAddInventory(p) ==
    /\ ctx[p].pc = "add_inventory"
    /\ LET file == ctx[p].input IN
       IF ~ExcelName(file.filename)
       THEN /\ ConcSet(p, [ctx[p] EXCEPT !.pc = "done",
                                         !.resp = HTTPException(400, "Invalid file")])
            /\ uploads' = uploads
       ELSE /\ uploads' = [uploads EXCEPT ![file.filename] = file.content]
            /\ LET df == uploads'[file.filename]
                   items_dict == transform_file_into_request_objects(df, ctx[p].tok["entity_id"])
               IN  IF ~df.columns
                   THEN ConcSet(p, [ctx[p] EXCEPT !.pc = "done", !.resp = InternalServerError])
                   ELSE \E response \in AddItemsReplies(items_dict) \cup Failures :
                          ConcSet(p, [ctx[p] EXCEPT
                              !.pc = "done",
                              !.calls = <<Call("items", items_dict, response)>>,
                              !.resp = IF Failed(response)
                                       THEN OnFailure(ExceptTimeout, response.exc,
                                                      "Shop service unavailable")
                                       ELSE IF response.status = 200
                                       THEN Http(200, response.json)
                                       ELSE InternalServerError])
    /\ UNCHANGED <<reqVars, nreq, metricVars, ledgerLog, codecVars, guardVars>>

ConcRespond(p) ==
    /\ ctx[p].pc = "done"
    /\ ConcSet(p, NoCtx)
    /\ UNCHANGED <<uploads, reqVars, nreq, metricVars, ledgerLog, codecVars, guardVars>>

ConcInit == FlowIdle /\ CodecIdle /\ GuardIdle /\ ConcIdle
ConcNext ==
    \/ \E p \in Procs : ConcReceive(p)
    \/ \E p \in Procs : ConcMergeCall(p)
    \/ \E p \in Procs : ConcInc(p)
    \/ \E p \in Procs : ConcAudit(p)
    \/ \E p \in Procs : ConcAddInventory(p)
    \/ \E p \in Procs : ConcRespond(p)
SpecConc == ConcInit /\ [][ConcNext]_vars

InFlight(p) == ctx[p].pc # "idle"
SharedState == <<merged_recognitions, confused_recognitions, recognitions, uploads>>

\* C21: while two requests of the same route are in progress, no step of
\* either writes state the other one writes too: the process-level counters,
\* the audit table and the upload directory stay as they are.
C21_NoSharedWrites ==
    [][(InFlight(1) /\ InFlight(2) /\ ctx[1].route = ctx[2].route)
          => UNCHANGED SharedState]_vars

\* Two uploads in progress name the same file with different content: the
\* first has written it, the second will overwrite it
C21_SameFileTwoWriters ==
    /\ ctx[1].route = "add_inventory"
    /\ ctx[2].route = "add_inventory"
    /\ ctx[1].pc = "done"
    /\ ctx[2].pc = "add_inventory"
    /\ ctx[1].input.filename = ctx[2].input.filename
    /\ ctx[1].input.content # ctx[2].input.content
    /\ uploads[ctx[1].input.filename] = ctx[1].input.content

\* Both contexts are between the counter increment and the audit write of a merge
C21_TwoMergesCounted ==
    /\ ctx[1].route = "merge_users"
    /\ ctx[2].route = "merge_users"
    /\ ctx[1].pc = "audit"
    /\ ctx[2].pc = "audit"
    /\ merged_recognitions = 2

\* What a finished add_inventory posted is made of its own upload and token
C21_UploadOutcomeOwnInputs ==
    \A p \in Procs :
        (ctx[p].route = "add_inventory" /\ ctx[p].calls # <<>>) =>
            ctx[p].calls[1].arg =
                transform_file_into_request_objects(ctx[p].input.content,
                                                    ctx[p].tok["entity_id"])

====
